---- MODULE Spec2Model ----
(***************************************************************************)
(* Model of layOutDay (src/js/app.js): the calendar day layout.            *)
(*                                                                         *)
(* The working arrays of the code are sequences here.  JavaScript arrays   *)
(* are indexed from 0 and TLA+ sequences from 1, so every index, loop      *)
(* cursor and entry of a collisions list is the code's value plus one; the *)
(* code only compares indices with each other and takes differences of     *)
(* them, which the shift leaves unchanged.  topEventId = null is NoId.     *)
(*                                                                         *)
(* layOutDay is synchronous; the model steps through it one statement of   *)
(* layOutDay at a time and one iteration at a time inside the loops of     *)
(* getEventsUnder, setLayOutParams and processEventsUnder.                 *)
(***************************************************************************)
EXTENDS Integers, Sequences, FiniteSets

VARIABLES input, pc, events, eventsUnder, i, start, eventsGroups, pending, output

vars == <<input, pc, events, eventsUnder, i, start, eventsGroups, pending, output>>

\* Bounds of the model: the number of input events, the largest minute used
\* and the number of input events that may have the same start and end.
MaxEvents == 5
MaxTime == 3
MaxTwins == 2

\* The number of input events under SpecPerm, which tries every order of them.
MaxPermEvents == 3

\* layOutDay's layout constants.
MAX_WIDTH == 620
MIN_LEFT == 10

NoId == 0

----------------------------------------------------------------------------
(* Inputs *)

Intervals == {iv \in (0 .. MaxTime - 1) \X (1 .. MaxTime) : iv[1] < iv[2]}

IntervalKey(iv) == iv[1] * (MaxTime + 1) + iv[2]

\* Well-formed inputs of at most maxN events: unique ids (the position),
\* 0 <= start < end <= MaxTime.  The events are listed by ascending start and
\* ascending end; the order the caller lists them in reaches the layout only
\* through the sort, which Sort models by every order it can leave tied events
\* in.
InputsUpTo(maxN) ==
    UNION { { [k \in 1 .. n |-> [id |-> k, start |-> f[k][1], end |-> f[k][2]]] :
                f \in { g \in [1 .. n -> Intervals] :
                          /\ \A k \in 1 .. n - 1 :
                                IntervalKey(g[k]) <= IntervalKey(g[k + 1])
                          /\ \A k \in 1 .. n :
                                Cardinality({l \in 1 .. n : g[l] = g[k]}) <= MaxTwins } } :
            n \in 0 .. maxN }

Range(s) == {s[k] : k \in 1 .. Len(s)}

\* PermutationsOf[n]: the permutations of 1 .. n.
PermutationsOf ==
    [n \in 0 .. MaxPermEvents |->
        {p \in [1 .. n -> 1 .. n] : \A a, b \in 1 .. n : p[a] = p[b] => a = b}]

Permutations(n) == PermutationsOf[n]

----------------------------------------------------------------------------
(* Pure helpers of the code *)

\* Mutant: the quotient rounded up instead of truncated.
TruncDivRoundingUp(a, b) == IF a >= 0 THEN (a + b - 1) \div b ELSE -((-a) \div b)

\* (x << 0) of a quotient: truncation toward zero.
TruncDiv(a, b) == IF a >= 0 THEN a \div b ELSE -((-a) \div b)

Max(a, b) == IF a > b THEN a ELSE b

CloneEvents(_events) ==
    [k \in 1 .. Len(_events) |->
        [id |-> _events[k].id, start |-> _events[k].start, end |-> _events[k].end,
         collisions |-> <<>>, left |-> 0, width |-> 0,
         hasEventUnder |-> FALSE, topEventId |-> NoId]]

NormalizeEvents(_events) ==
    [k \in 1 .. Len(_events) |->
        [id |-> _events[k].id, start |-> _events[k].start, end |-> _events[k].end,
         left |-> _events[k].left, width |-> _events[k].width, top |-> _events[k].start]]

\* Mutant: the comparator without the tie-break on the end time.
CompareStartOnly(a, b) == IF a.start >= b.start THEN 1 ELSE -1

CompareStartEndTime(a, b) ==
    IF a.start = b.start
    THEN (IF a.end > b.end THEN -1 ELSE 1)
    ELSE (IF a.start > b.start THEN 1 ELSE -1)

\* s with e put in at position pos.
InsertAt(s, pos, e) ==
    [k \in 1 .. Len(s) + 1 |-> IF k < pos THEN s[k] ELSE IF k = pos THEN e ELSE s[k - 1]]

\* The places of the sorted sequence s that the comparator allows e to take:
\* it never says that e belongs before an event at its left or that an event
\* at its right belongs before e.
Insertions(s, e) ==
    { InsertAt(s, pos, e) :
        pos \in { q \in 1 .. Len(s) + 1 :
                    /\ \A a \in 1 .. q - 1 : CompareStartEndTime(e, s[a]) = 1
                    /\ \A a \in q .. Len(s) : CompareStartEndTime(s[a], e) = 1 } }

RECURSIVE SortFrom(_, _, _)
SortFrom(_events, k, sorted) ==
    IF k > Len(_events) THEN sorted
    ELSE SortFrom(_events, k + 1, UNION {Insertions(s, _events[k]) : s \in sorted})

\* What Array.prototype.sort can return for compareStartEndTime.  The
\* comparator is consistent except that it answers 1 both ways for two events
\* with the same start and end, so the result is ordered by (start ascending,
\* end descending) and the order of such tied events depends on the engine
\* and on the order of the argument: every order of the ties is possible.
SortOutcomes(_events) == SortFrom(_events, 1, {<<>>})

IsEventsCollides(a, b) ==
    \/ (a.end > b.start /\ a.end <= b.end)
    \/ (a.start >= b.start /\ a.start < b.end)
    \/ (a.start < b.start /\ a.end > b.end)

PushCollision(e, j) == [e EXCEPT !.collisions = Append(@, j)]

RECURSIVE CollidePairs(_, _, _)
\* The nested loops of updateCollisions from the pair (a, b) on.
CollidePairs(_events, a, b) ==
    IF a > Len(_events) - 1 THEN _events
    ELSE IF b > Len(_events) THEN CollidePairs(_events, a + 1, a + 2)
    ELSE IF IsEventsCollides(_events[a], _events[b])
         THEN CollidePairs([_events EXCEPT ![a] = PushCollision(@, b),
                                           ![b] = PushCollision(@, a)], a, b + 1)
         ELSE CollidePairs(_events, a, b + 1)

UpdateCollisions(_events) ==
    CollidePairs([k \in 1 .. Len(_events) |-> [_events[k] EXCEPT !.collisions = <<>>]], 1, 2)

RECURSIVE LeftCollisionsFrom(_, _, _)
LeftCollisionsFrom(_collisions, _eventIdx, count) ==
    IF count + 1 <= Len(_collisions) /\ _collisions[count + 1] < _eventIdx
    THEN LeftCollisionsFrom(_collisions, _eventIdx, count + 1)
    ELSE count

GetLeftCollisionsCount(_collisions, _eventIdx) == LeftCollisionsFrom(_collisions, _eventIdx, 0)

\* Mutant: the splice removes the element before idx.
SpliceBefore(_events, idx) ==
    [k \in 1 .. Len(_events) - 1 |-> IF k < idx - 1 THEN _events[k] ELSE _events[k + 1]]

\* _events.splice(idx, 1): the sequence without its element at idx.
Splice(_events, idx) ==
    [k \in 1 .. Len(_events) - 1 |-> IF k < idx THEN _events[k] ELSE _events[k + 1]]

----------------------------------------------------------------------------
(* getEventsUnder *)

\* Mutant: the test of the inner loop without the collision test.
HasRoomUnderAnyEvent(leftEvent, currentEvent) == ~leftEvent.hasEventUnder

\* The test of the inner loop: the left event leaves room under it.
HasRoomUnder(leftEvent, currentEvent) ==
    ~IsEventsCollides(leftEvent, currentEvent) /\ ~leftEvent.hasEventUnder

\* The indices the inner loop stops at: the first one is the anchor.
RoomCandidates(_events, idx, from) ==
    {j \in from .. idx - 1 : HasRoomUnder(_events[j], _events[idx])}

Min(S) == CHOOSE x \in S : \A y \in S : x <= y

\* Mutant: hasEventUnder is not set.
MarkAnchorForgotten(leftEvent) == leftEvent

MarkAnchor(leftEvent) == [leftEvent EXCEPT !.hasEventUnder = TRUE]

\* Mutant: the collisions are not recomputed after the splice.
AfterExtractionStale(_events, idx, j) ==
    Splice([_events EXCEPT ![j] = MarkAnchor(@)], idx)

\* The primary sequence after the event at idx was moved out of it, under j.
AfterExtraction(_events, idx, j) ==
    UpdateCollisions(Splice([_events EXCEPT ![j] = MarkAnchor(@)], idx))

\* The cursor the next iteration reads after an extraction: --i, then ++i.
CursorAfterExtraction(idx) == (idx - 1) + 1

\* One iteration of the outer loop of getEventsUnder, at cursor idx.
GetEventsUnderIter(_events, under, idx, from) ==
    IF GetLeftCollisionsCount(_events[idx].collisions, idx) > 0
    THEN IF RoomCandidates(_events, idx, from) # {}
         THEN LET j == Min(RoomCandidates(_events, idx, from))
                  temp == [_events[idx] EXCEPT !.topEventId = _events[j].id]
              IN [events |-> AfterExtraction(_events, idx, j),
                  eventsUnder |-> Append(under, temp),
                  i |-> CursorAfterExtraction(idx), start |-> from]
         ELSE [events |-> _events, eventsUnder |-> under, i |-> idx + 1, start |-> from]
    ELSE [events |-> _events, eventsUnder |-> under, i |-> idx + 1, start |-> idx]

\* The statements after the loop: the collisions among the nested events.
GetEventsUnderEnd(under) == IF Len(under) > 0 THEN UpdateCollisions(under) ELSE under

RECURSIVE GetEventsUnderLoop(_, _, _, _)
GetEventsUnderLoop(_events, under, idx, from) ==
    IF idx > Len(_events)
    THEN [events |-> _events, eventsUnder |-> GetEventsUnderEnd(under)]
    ELSE LET r == GetEventsUnderIter(_events, under, idx, from)
         IN GetEventsUnderLoop(r.events, r.eventsUnder, r.i, r.start)

GetEventsUnder(_events) == GetEventsUnderLoop(_events, <<>>, 1, 1)

----------------------------------------------------------------------------
(* setLayOutParams *)

\* Mutant: the width divided by one member too few.
GroupWidthOffByOne(maxWidth, idx, from) == TruncDiv(maxWidth, idx - from)

GroupWidth(maxWidth, idx, from) == TruncDiv(maxWidth, idx - from + 1)

RECURSIVE Rebalance(_, _, _, _, _, _, _)
\* The loop over k of setLayOutParams: the members from..idx-1 of the open
\* group get the new width and consecutive lefts; yields the events and the
\* left the loop ends with.
Rebalance(_events, k, idx, from, left, width, minLeft) ==
    IF k >= idx THEN [events |-> _events, left |-> left]
    ELSE LET l == IF k = from /\ left > _events[from].left THEN _events[from].left ELSE left
         IN Rebalance([_events EXCEPT ![k].width = width, ![k].left = Max(l, minLeft)],
                      k + 1, idx, from, l + width, width, minLeft)

\* Mutant: the group-start marker is not moved.
NewGroupStartStale(idx, from) == from

\* The group-start marker after an event with no collision at its left.
NewGroupStart(idx, from) == idx

\* One iteration of the loop of setLayOutParams, at cursor idx.
SetLayOutIter(_events, idx, from, minLeft, maxWidth) ==
    IF GetLeftCollisionsCount(_events[idx].collisions, idx) = 0
    THEN [events |-> [_events EXCEPT ![idx].left = minLeft, ![idx].width = maxWidth],
          start |-> NewGroupStart(idx, from)]
    ELSE LET width == GroupWidth(maxWidth, idx, from)
             r == Rebalance(_events, from, idx, from,
                            _events[_events[idx].collisions[1]].left, width, minLeft)
         IN [events |-> [r.events EXCEPT ![idx].left = r.left, ![idx].width = width],
             start |-> from]

RECURSIVE SetLayOutLoop(_, _, _, _, _)
SetLayOutLoop(_events, idx, from, minLeft, maxWidth) ==
    IF idx > Len(_events) THEN _events
    ELSE LET r == SetLayOutIter(_events, idx, from, minLeft, maxWidth)
         IN SetLayOutLoop(r.events, idx + 1, r.start, minLeft, maxWidth)

SetLayOutParams(_events, minLeft, maxWidth) == SetLayOutLoop(_events, 1, 1, minLeft, maxWidth)

----------------------------------------------------------------------------
(* processEventsUnder *)

\* eventIdxById[id]: the last index of the primary sequence holding the id.
EventIdxById(_events, id) ==
    CHOOSE k \in 1 .. Len(_events) :
        /\ _events[k].id = id
        /\ \A l \in 1 .. Len(_events) : _events[l].id = id => l <= k

\* eventsGroups[key] = group, the key added when it is new.
SetGroup(groups, key, group) ==
    [k \in DOMAIN groups \cup {key} |-> IF k = key THEN group ELSE groups[k]]

\* hasTopCollisionAtRight of the nested event at idx, anchored at topIdx.
HasTopCollisionAtRight(_eventsUnder, _events, idx, topIdx) ==
    IF topIdx + 1 <= Len(_events) /\ idx + 1 <= Len(_eventsUnder)
    THEN /\ _events[topIdx + 1].id = _eventsUnder[idx + 1].topEventId
         /\ IsEventsCollides(_eventsUnder[idx + 1], _eventsUnder[idx])
    ELSE FALSE

RECURSIVE FitBetweenUnder(_, _, _, _, _, _, _, _)
\* "try to fit between other events at the left": the loop over the earlier
\* nested events j..idx-1; groupLeft is eventGroup.left, topLeft eventAtTop.left.
FitBetweenUnder(_eventsUnder, groups, j, idx, groupLeft, topLeft, left, width) ==
    IF j >= idx THEN [left |-> left, width |-> width]
    ELSE LET other == groups[_eventsUnder[j].topEventId]
         IN IF IsEventsCollides(_eventsUnder[j], _eventsUnder[idx]) /\ other.left < groupLeft
            THEN FitBetweenUnder(_eventsUnder, groups, j + 1, idx, groupLeft, topLeft,
                                 other.left + other.width,
                                 width + (topLeft - (other.left + other.width)))
            ELSE FitBetweenUnder(_eventsUnder, groups, j + 1, idx, groupLeft, topLeft,
                                 left, width)

\* "try to fit at the left events": the first primary event below topIdx, going
\* down, that collides with the nested event bounds the window at the left.
FitAtLeft(_events, event, topIdx, topLeft, left, width) ==
    LET hits == {j \in 1 .. topIdx - 1 : IsEventsCollides(_events[j], event)}
    IN IF hits = {} THEN [left |-> left, width |-> width]
       ELSE LET j == CHOOSE x \in hits : \A y \in hits : y <= x
                l == _events[j].left + _events[j].width
            IN [left |-> l, width |-> width + (topLeft - l)]

\* "try to fit at the right side": the first primary event above topIdx that
\* collides with the nested event caps the width.
FitAtRight(_events, event, topIdx, left, width) ==
    LET hits == {j \in topIdx + 1 .. Len(_events) : IsEventsCollides(_events[j], event)}
    IN IF hits = {} THEN width
       ELSE _events[Min(hits)].left - left

\* One iteration of the grouping loop of processEventsUnder, at cursor idx:
\* the groups after it.  The items of a group are the indices of its events in
\* the nested sequence (the code holds the same objects in both arrays).
ProcessEventsUnderIter(_eventsUnder, _events, groups, idx) ==
    LET event == _eventsUnder[idx]
        eventAtTopId == event.topEventId
        eventAtTopIdx == EventIdxById(_events, eventAtTopId)
        eventAtTop == _events[eventAtTopIdx]
        known == IF eventAtTopId \in DOMAIN groups THEN groups
                 ELSE SetGroup(groups, eventAtTopId,
                               [items |-> <<>>, left |-> eventAtTop.left,
                                width |-> eventAtTop.width])
        eventGroup == [known[eventAtTopId] EXCEPT !.items = Append(@, idx)]
        grouped == SetGroup(known, eventAtTopId, eventGroup)
    IN IF Len(eventAtTop.collisions) > 0
          /\ ~HasTopCollisionAtRight(_eventsUnder, _events, idx, eventAtTopIdx)
       THEN LET atLeft == IF GetLeftCollisionsCount(event.collisions, idx) > 0
                          THEN FitBetweenUnder(_eventsUnder, grouped, 1, idx, eventGroup.left,
                                               eventAtTop.left, eventAtTop.left,
                                               eventAtTop.width)
                          ELSE FitAtLeft(_events, event, eventAtTopIdx, eventAtTop.left,
                                         eventAtTop.left, eventAtTop.width)
                width == FitAtRight(_events, event, eventAtTopIdx, atLeft.left, atLeft.width)
            IN SetGroup(grouped, eventAtTopId,
                        [eventGroup EXCEPT !.left = atLeft.left, !.width = width])
       ELSE grouped

RECURSIVE ProcessEventsUnderLoop(_, _, _, _)
ProcessEventsUnderLoop(_eventsUnder, _events, groups, idx) ==
    IF idx > Len(_eventsUnder) THEN groups
    ELSE ProcessEventsUnderLoop(_eventsUnder, _events,
                                ProcessEventsUnderIter(_eventsUnder, _events, groups, idx),
                                idx + 1)

\* setLayOutParams(eventsGroups[key].items, left, width): the nested sequence
\* with the items of the group laid out.
LayOutGroup(_eventsUnder, groups, key) ==
    LET items == groups[key].items
        laid == SetLayOutParams([k \in 1 .. Len(items) |-> _eventsUnder[items[k]]],
                                groups[key].left, groups[key].width)
    IN [n \in 1 .. Len(_eventsUnder) |->
          IF \E k \in 1 .. Len(items) : items[k] = n
          THEN laid[CHOOSE k \in 1 .. Len(items) : items[k] = n]
          ELSE _eventsUnder[n]]

RECURSIVE LayOutGroups(_, _, _)
\* The for-in loop over the groups; keys is the set of keys still to visit.
LayOutGroups(_eventsUnder, groups, keys) ==
    IF keys = {} THEN _eventsUnder
    ELSE LET key == Min(keys)
         IN LayOutGroups(LayOutGroup(_eventsUnder, groups, key), groups, keys \ {key})

EmptyGroups == [k \in {} |-> 0]

ProcessEventsUnder(_eventsUnder, _events) ==
    LET groups == ProcessEventsUnderLoop(_eventsUnder, _events, EmptyGroups, 1)
    IN LayOutGroups(_eventsUnder, groups, DOMAIN groups)

----------------------------------------------------------------------------
(* layOutDay *)

\* layOutDay from the sorted working events on: lines 43-54.
LayOutSorted(sorted) ==
    LET split == GetEventsUnder(UpdateCollisions(sorted))
        primary == SetLayOutParams(split.events, MIN_LEFT, MAX_WIDTH)
    IN NormalizeEvents(primary \o ProcessEventsUnder(split.eventsUnder, primary))

----------------------------------------------------------------------------
(* The state machine *)

Start ==
    /\ pc = "clone"
    /\ events = <<>>
    /\ eventsUnder = <<>>
    /\ i = 1
    /\ start = 1
    /\ eventsGroups = EmptyGroups
    /\ pending = {}
    /\ output = <<>>

Init == input \in InputsUpTo(MaxEvents) /\ Start

InitPerm == input \in InputsUpTo(MaxPermEvents) /\ Start

\* events = cloneEvents(_events)
Clone ==
    /\ pc = "clone"
    /\ events' = CloneEvents(input)
    /\ pc' = "sort"
    /\ UNCHANGED <<input, eventsUnder, i, start, eventsGroups, pending, output>>

\* events.sort(compareStartEndTime)
Sort ==
    /\ pc = "sort"
    /\ events' \in SortOutcomes(events)
    /\ pc' = "updateCollisions"
    /\ UNCHANGED <<input, eventsUnder, i, start, eventsGroups, pending, output>>

\* updateCollisions(events), and the entry of getEventsUnder
Collide ==
    /\ pc = "updateCollisions"
    /\ events' = UpdateCollisions(events)
    /\ pc' = "getEventsUnder"
    /\ i' = 1
    /\ start' = 1
    /\ UNCHANGED <<input, eventsUnder, eventsGroups, pending, output>>

\* one iteration of the outer loop of getEventsUnder
ScanUnder ==
    /\ pc = "getEventsUnder"
    /\ i <= Len(events)
    /\ LET r == GetEventsUnderIter(events, eventsUnder, i, start)
       IN /\ events' = r.events
          /\ eventsUnder' = r.eventsUnder
          /\ i' = r.i
          /\ start' = r.start
    /\ UNCHANGED <<input, pc, eventsGroups, pending, output>>

\* the end of getEventsUnder, and the entry of setLayOutParams(events, 10, 620)
EndScanUnder ==
    /\ pc = "getEventsUnder"
    /\ i > Len(events)
    /\ eventsUnder' = GetEventsUnderEnd(eventsUnder)
    /\ pc' = "setLayOutParams"
    /\ i' = 1
    /\ start' = 1
    /\ UNCHANGED <<input, events, eventsGroups, pending, output>>

\* one iteration of setLayOutParams on the primary sequence
LayOutPrimary ==
    /\ pc = "setLayOutParams"
    /\ i <= Len(events)
    /\ LET r == SetLayOutIter(events, i, start, MIN_LEFT, MAX_WIDTH)
       IN /\ events' = r.events
          /\ start' = r.start
    /\ i' = i + 1
    /\ UNCHANGED <<input, pc, eventsUnder, eventsGroups, pending, output>>

\* the end of setLayOutParams, and the entry of processEventsUnder
EndLayOutPrimary ==
    /\ pc = "setLayOutParams"
    /\ i > Len(events)
    /\ pc' = "processEventsUnder"
    /\ i' = 1
    /\ eventsGroups' = EmptyGroups
    /\ UNCHANGED <<input, events, eventsUnder, start, pending, output>>

\* one iteration of the grouping loop of processEventsUnder
GroupUnder ==
    /\ pc = "processEventsUnder"
    /\ i <= Len(eventsUnder)
    /\ eventsGroups' = ProcessEventsUnderIter(eventsUnder, events, eventsGroups, i)
    /\ i' = i + 1
    /\ UNCHANGED <<input, pc, events, eventsUnder, start, pending, output>>

\* the end of the grouping loop
EndGroupUnder ==
    /\ pc = "processEventsUnder"
    /\ i > Len(eventsUnder)
    /\ pc' = "layOutGroups"
    /\ pending' = DOMAIN eventsGroups
    /\ UNCHANGED <<input, events, eventsUnder, i, start, eventsGroups, output>>

\* one iteration of the for-in loop: setLayOutParams on one group.  The order
\* for-in visits the keys in depends on what the ids are; any order is taken.
LayOutUnder ==
    /\ pc = "layOutGroups"
    /\ \E key \in pending :
          /\ eventsUnder' = LayOutGroup(eventsUnder, eventsGroups, key)
          /\ pending' = pending \ {key}
    /\ UNCHANGED <<input, pc, events, i, start, eventsGroups, output>>

\* return normalizeEvents(events.concat(eventsUnder))
Normalize ==
    /\ pc = "layOutGroups"
    /\ pending = {}
    /\ output' = NormalizeEvents(events \o eventsUnder)
    /\ pc' = "done"
    /\ UNCHANGED <<input, events, eventsUnder, i, start, eventsGroups, pending>>

Next ==
    \/ Clone
    \/ Sort
    \/ Collide
    \/ ScanUnder
    \/ EndScanUnder
    \/ LayOutPrimary
    \/ EndLayOutPrimary
    \/ GroupUnder
    \/ EndGroupUnder
    \/ LayOutUnder
    \/ Normalize

Spec == Init /\ [][Next]_vars

\* The same program on the inputs small enough to try every order of.
SpecPerm == InitPerm /\ [][Next]_vars

----------------------------------------------------------------------------
(* Vocabulary of the properties *)

\* The time intervals of a and b intersect.
Intersects(a, b) == a.start < b.end /\ b.start < a.end

\* The horizontal spans [left, left+width) of a and b have a point in common.
SpansOverlap(a, b) ==
    /\ a.width > 0
    /\ b.width > 0
    /\ a.left < b.left + b.width
    /\ b.left < a.left + a.width

Ids(s) == {s[k].id : k \in 1 .. Len(s)}

Done == pc = "done"

\* getEventsUnder has returned.
AfterSplit == pc \in {"setLayOutParams", "processEventsUnder", "layOutGroups", "done"}

\* The indices of seq other than k whose interval intersects that of seq[k],
\* in ascending order.
IntersectingIndices(seq, k) ==
    LET Hit(j) == j # k /\ Intersects(seq[k], seq[j])
    IN SelectSeq([j \in 1 .. Len(seq) |-> j], Hit)

\* The collisions list of every event of seq is exactly the ascending list of
\* the other indices of seq whose interval intersects the event's interval.
CollisionsFresh(seq) ==
    \A k \in 1 .. Len(seq) : seq[k].collisions = IntersectingIndices(seq, k)

\* The output records of the events the split left in the primary sequence:
\* layOutDay returns events.concat(eventsUnder).
PrimaryOut == {output[k] : k \in 1 .. Len(events)}

OutOf(id) == CHOOSE o \in Range(output) : o.id = id

----------------------------------------------------------------------------
(* C1 *)

\* C1: any two distinct output events whose time intervals collide have
\* horizontal spans [left, left+width) that do not overlap.
C1_NoOverlap ==
    Done => \A a, b \in 1 .. Len(output) :
               (a # b /\ Intersects(output[a], output[b]))
                   => ~SpansOverlap(output[a], output[b])

----------------------------------------------------------------------------
(* C2 *)

\* C2: the output holds each input id exactly once and no other id, with the
\* input's start and end and top = start; and from the first iteration of
\* getEventsUnder on, every working event is in exactly one of the primary and
\* the nested sequence.
C2_Bijection ==
    /\ Done =>
          /\ Len(output) = Len(input)
          /\ Ids(output) = Ids(input)
          /\ \A k \in 1 .. Len(input) :
                /\ Cardinality({l \in 1 .. Len(output) : output[l].id = input[k].id}) = 1
                /\ OutOf(input[k].id).start = input[k].start
                /\ OutOf(input[k].id).end = input[k].end
                /\ OutOf(input[k].id).top = input[k].start
    /\ (pc = "getEventsUnder" \/ AfterSplit) =>
          /\ Len(events) + Len(eventsUnder) = Len(input)
          /\ \A k \in 1 .. Len(input) :
                Cardinality({l \in 1 .. Len(events) : events[l].id = input[k].id})
                  + Cardinality({l \in 1 .. Len(eventsUnder) :
                                    eventsUnder[l].id = input[k].id}) = 1

\* A finished layout of five events of which two were extracted.
C2_Witness == Done /\ Len(input) = 5 /\ Len(eventsUnder) = 2 /\ Len(output) = 5

----------------------------------------------------------------------------
(* C3 *)

----------------------------------------------------------------------------
(* C4 *)

SameInterval(a, b) == a.start = b.start /\ a.end = b.end

\* The input listed in the order p.
Permuted(p) == [k \in 1 .. Len(input) |-> input[p[k]]]

\* Every order the sort can leave the working events in, over all the orders
\* the input can be passed in.
SortedOverPermutations ==
    UNION {SortOutcomes(CloneEvents(Permuted(p))) : p \in Permutations(Len(input))}

\* Every layout layOutDay can return for a permutation of the input.
LayoutsOverPermutations == {LayOutSorted(s) : s \in SortedOverPermutations}

\* id -> (left, width, top) of a layout, as a set of tuples.
Geometry(out) == {<<o.id, o.left, o.width, o.top>> : o \in Range(out)}

\* The layout without the ids: how many events have each (start, end, left,
\* width, top).
Shape(out) ==
    LET boxes == {<<o.start, o.end, o.left, o.width, o.top>> : o \in Range(out)}
    IN [b \in boxes |->
          Cardinality({k \in 1 .. Len(out) :
              <<out[k].start, out[k].end, out[k].left, out[k].width, out[k].top>> = b})]

\* C4 as stated: every permutation of the input yields the mapping
\* id -> (left, width, top) of this run, identical events included.
C4_PermutationIndependent ==
    Done => \A out \in LayoutsOverPermutations : Geometry(out) = Geometry(output)

NoIdenticalEvents ==
    \A a, b \in 1 .. Len(input) : a # b => ~SameInterval(input[a], input[b])

\* C4 amended: when no two input events have both the same start and the same
\* end, every permutation of the input yields the mapping id -> (left, width,
\* top) of this run; with identical events every permutation still yields the
\* same layout up to the ids of identical events.
C4_PermutationIndependentUnlessIdentical ==
    Done => \A out \in LayoutsOverPermutations :
               /\ NoIdenticalEvents => Geometry(out) = Geometry(output)
               /\ Shape(out) = Shape(output)

\* A finished layout of three events with distinct intervals, two of them
\* starting together, one of them nested.
C4_Witness ==
    /\ Done
    /\ Len(input) = 3
    /\ NoIdenticalEvents
    /\ \E a, b \in 1 .. 3 : a # b /\ input[a].start = input[b].start
    /\ Len(eventsUnder) >= 1

----------------------------------------------------------------------------
(* C5 *)

AllPairwiseCollide ==
    \A a, b \in 1 .. Len(input) : a # b => Intersects(input[a], input[b])

\* The sequence is in sort order: ascending start, then descending end.
InSortOrder(seq) ==
    \A a, b \in 1 .. Len(seq) :
        a < b => \/ seq[a].start < seq[b].start
                 \/ (seq[a].start = seq[b].start /\ seq[a].end >= seq[b].end)

\* C5: when the n >= 1 input events all pairwise collide, none is extracted,
\* every output event has width floor(620 / n) and the k-th event in sort
\* order (k from 0) has left 10 + k * floor(620 / n).
C5_EqualColumns ==
    (Done /\ Len(input) >= 1 /\ AllPairwiseCollide) =>
        /\ eventsUnder = <<>>
        /\ Len(output) = Len(input)
        /\ InSortOrder(output)
        /\ \A k \in 1 .. Len(output) :
              /\ output[k].width = 620 \div Len(input)
              /\ output[k].left = 10 + (k - 1) * (620 \div Len(input))

\* Three events that all pairwise collide, laid out in columns of 206.
C5_Witness ==
    /\ Done
    /\ Len(input) = 3
    /\ AllPairwiseCollide
    /\ output[3].left = 422
    /\ output[3].width = 206

----------------------------------------------------------------------------
(* C6 *)

\* The input event with this id collides with no other input event.
Isolated(id) ==
    \A a, b \in 1 .. Len(input) :
        (input[a].id = id /\ b # a) => ~Intersects(input[a], input[b])

\* C6: every event that collides with no other input event is output with
\* left 10 and width 620, and is not extracted into the nested sequence.
C6_IsolatedFullRow ==
    Done => \A o \in Range(output) :
               Isolated(o.id) => /\ o.left = 10
                                 /\ o.width = 620
                                 /\ o.id \notin Ids(eventsUnder)

\* An isolated event laid out before a group of two columns.
C6_Witness ==
    /\ Done
    /\ Len(input) >= 3
    /\ \E a \in 1 .. Len(events) - 2 :
          /\ Isolated(events[a].id)
          /\ events[a].left = 10
          /\ events[a].width = 620
          /\ events[a + 2].width = 310

----------------------------------------------------------------------------
(* C7 *)

Inside(x, a) == a.start <= x.start /\ x.end <= a.end

\* a contains s and x, and s ends before x starts.
ContainerWithSiblings(a, s, x) ==
    /\ a.id # s.id /\ a.id # x.id /\ s.id # x.id
    /\ Inside(s, a)
    /\ Inside(x, a)
    /\ s.end <= x.start

\* The working event with this id is nested, under the event with id top.
NestedUnder(id, top) ==
    \E k \in 1 .. Len(eventsUnder) :
        eventsUnder[k].id = id /\ eventsUnder[k].topEventId = top

\* C7 as stated: x is extracted with topEventId the container's id, and its
\* span is a sub-window of the container's span.
C7_AnchoredToContainer ==
    Done => \A a, s, x \in Range(input) :
               ContainerWithSiblings(a, s, x) =>
                   /\ NestedUnder(x.id, a.id)
                   /\ OutOf(a.id).left <= OutOf(x.id).left
                   /\ OutOf(x.id).left + OutOf(x.id).width
                        <= OutOf(a.id).left + OutOf(a.id).width

\* C7 amended: when the input is exactly a container a and two events s and x
\* inside it with s ending no later than x starts, x is extracted with
\* topEventId the sibling's id (the anchor never collides with the nested
\* event), and x gets the sibling's column [320, 630), beside the container's
\* column [10, 320).
C7_AnchoredToSibling ==
    (Done /\ Len(input) = 3) =>
        \A a, s, x \in Range(input) :
            ContainerWithSiblings(a, s, x) =>
                /\ NestedUnder(x.id, s.id)
                /\ ~Intersects(s, x)
                /\ OutOf(a.id).left = 10 /\ OutOf(a.id).width = 310
                /\ OutOf(s.id).left = 320 /\ OutOf(s.id).width = 310
                /\ OutOf(x.id).left = 320 /\ OutOf(x.id).width = 310

\* A container with two halves, the later half nested.
C7_Witness ==
    /\ Done
    /\ Len(input) = 3
    /\ Len(eventsUnder) = 1
    /\ \E a, s, x \in Range(input) :
          /\ ContainerWithSiblings(a, s, x)
          /\ s.start = a.start /\ s.end = x.start /\ x.end = a.end

----------------------------------------------------------------------------
(* C8 *)

\* C8: whenever getEventsUnder or setLayOutParams is about to read the
\* collisions of the primary sequence, and once updateCollisions has run on the
\* nested sequence, every collisions list is the strictly ascending list of the
\* other indices of the current sequence whose interval intersects the
\* event's; the relation is symmetric and isEventsCollides does not depend on
\* the order of its arguments.
C8_CollisionsFresh ==
    /\ (pc = "getEventsUnder" \/ AfterSplit) =>
          /\ CollisionsFresh(events)
          /\ \A b \in 2 .. Len(events) : \A a \in 1 .. b - 1 :
                /\ b \in Range(events[a].collisions) <=> a \in Range(events[b].collisions)
                /\ IsEventsCollides(events[a], events[b]) = Intersects(events[a], events[b])
                /\ IsEventsCollides(events[b], events[a]) = Intersects(events[a], events[b])
    /\ AfterSplit => CollisionsFresh(eventsUnder)

\* getEventsUnder reads the collisions again right after an extraction, the
\* event now under the cursor colliding with one at its left.
C8_Witness ==
    /\ pc = "getEventsUnder"
    /\ Len(eventsUnder) >= 1
    /\ i <= Len(events)
    /\ GetLeftCollisionsCount(events[i].collisions, i) > 0

----------------------------------------------------------------------------
(* C9 *)

\* C9: every output event has width > 0.
C9_PositiveWidth ==
    Done => \A o \in Range(output) : o.width > 0

----------------------------------------------------------------------------
(* C10 *)

\* C10: after getEventsUnder no two nested events have the same topEventId and
\* every topEventId is the id of an event of the primary sequence; every
\* column group holds exactly one item, which has no collision at its left in
\* the group and receives exactly the group's left and width.
C10_OneItemPerGroup ==
    /\ AfterSplit =>
          /\ \A a, b \in 1 .. Len(eventsUnder) :
                a # b => eventsUnder[a].topEventId # eventsUnder[b].topEventId
          /\ \A a \in 1 .. Len(eventsUnder) : eventsUnder[a].topEventId \in Ids(events)
    /\ \A key \in DOMAIN eventsGroups :
          /\ Len(eventsGroups[key].items) = 1
          /\ GetLeftCollisionsCount(eventsUnder[eventsGroups[key].items[1]].collisions, 1) = 0
          /\ (pc \in {"layOutGroups", "done"} /\ key \notin pending) =>
                /\ eventsUnder[eventsGroups[key].items[1]].left = eventsGroups[key].left
                /\ eventsUnder[eventsGroups[key].items[1]].width = eventsGroups[key].width

\* A finished layout with two nested events that collide with each other,
\* each in its own group.
C10_Witness ==
    /\ Done
    /\ Cardinality(DOMAIN eventsGroups) = 2
    /\ Len(eventsUnder) = 2
    /\ Len(eventsUnder[2].collisions) > 0

====
